---- MODULE Spec2Model ----
(***************************************************************************)
(* A model of the travetto test engine.                                    *)
(*                                                                         *)
(*  - SuiteSpec: ExecuteUtil.executeSuite driving the lifecycle hooks      *)
(*    (affixProcess) and ExecuteUtil.executeTest over one suite.           *)
(*  - SuiteTestSpec: ExecuteUtil.executeSuiteTest, the same lifecycle     *)
(*    around one selected test of the suite.                               *)
(*  - ExecSpec: Executor.exec, which runs a single file in its own       *)
(*    process and exits, or spawns one child per file and merges the       *)
(*    children's SuitesResult.                                             *)
(*                                                                         *)
(* Strings are sequences of tokens; String.includes is contiguous          *)
(* sub-sequence.  Time is counted in ticks of the timeout timer.           *)
(***************************************************************************)
EXTENDS Integers, Sequences, FiniteSets, TLC

VARIABLES
  \* ---- one executeSuite run -------------------------------------------
  pc,        \* position of executeSuite
  suite,     \* SuiteConfig: number of tests, number of listeners per phase
  idx,       \* index in suite.tests of the test the loop is at
  li,        \* index of the listener the current phase is at
  cur,       \* the TestConfig handed to executeTest, and its index in suite.tests
  elapsed,   \* ticks since the timer of the current test was started
  running,   \* invocations (test methods) started and not yet settled
  scopes,    \* capture scopes / timer opened by executeTest and not closed
  result,    \* the SuiteResult under construction
  events,    \* what consumer.onEvent has received, in order
  hooks,     \* the lifecycle listeners invoked so far, in order
  delivered, \* the SuiteResult of `suite after` as it was when delivered
  \* ---- one Executor.exec run ------------------------------------------
  epc,       \* position of Executor.exec
  cpus,      \* os.cpus().length
  nfiles,    \* files.length
  position,  \* next file to dispatch
  pending,   \* Executor.pending: id -> state of the spawnFile promise
  child,     \* per spawned child: message received by the parent, if any
  results,   \* the aggregate SuitesResult
  thrown,    \* the error exec rejected with, if any
  exitCode   \* the code process.exit was called with, -1 while the process runs

suiteVars == <<pc, suite, idx, li, cur, elapsed, running, scopes, result, events,
               hooks, delivered>>
execVars  == <<epc, cpus, nfiles, position, pending, child, results, thrown,
               exitCode>>
vars      == <<pc, suite, idx, li, cur, elapsed, running, scopes, result, events,
               hooks, delivered,
               epc, cpus, nfiles, position, pending, child, results, thrown,
               exitCode>>

(***************************************************************************)
(* Bounds                                                                  *)
(***************************************************************************)
MaxTests == 2
MaxListeners == 2
MaxFiles == 4
MaxCpus == 3

(***************************************************************************)
(* Strings                                                                 *)
(***************************************************************************)
\* String.prototype.includes / RegExp.test of a literal pattern
Includes(s, sub) ==
  \E i \in 0..(Len(s) - Len(sub)) : SubSeq(s, i + 1, i + Len(sub)) = sub

MsgA == <<"boom">>
MsgB == <<"bad", "input">>
\* new Error('Operation timed out')
TimedOutMsg == <<"Operation", "timed", "out">>

(***************************************************************************)
(* Error values.  line is what AssertUtil.readFilePosition resolves for    *)
(* the error (1 when no frame of the test file is on its stack).           *)
(***************************************************************************)
Undefined == [kind |-> "undefined", message |-> <<>>, line |-> 0]
TIMEOUT   == [kind |-> "TIMEOUT", message |-> <<>>, line |-> 0]
BREAKOUT  == [kind |-> "BREAKOUT", message |-> <<>>, line |-> 0]
NewError(msg) == [kind |-> "Error", message |-> msg, line |-> 1]

\* what a test method or a listener can throw
ThrownErrors ==
  { [kind |-> "Error", message |-> MsgA, line |-> 1],
    [kind |-> "Error", message |-> MsgB, line |-> 7],
    [kind |-> "AssertionError", message |-> MsgA, line |-> 7],
    [kind |-> "string", message |-> MsgB, line |-> 1] }

\* `err` in a boolean context
IsErr(err) == err.kind # "undefined"
\* err instanceof Error
InstanceOfError(err) == err.kind \in {"Error", "AssertionError"}
\* err instanceof st, for the error classes of the model
InstanceOf(err, cls) ==
  IF cls = "Error" THEN InstanceOfError(err) ELSE err.kind = cls
\* `${err}`
ErrToString(err) ==
  IF err.kind = "string" THEN err.message ELSE <<err.kind, ":">> \o err.message

(***************************************************************************)
(* TestConfig                                                              *)
(***************************************************************************)
Absent    == [kind |-> "absent", flag |-> FALSE, text |-> <<>>]
Bool(b)   == [kind |-> "boolean", flag |-> b, text |-> <<>>]
Str(s)    == [kind |-> "string", flag |-> FALSE, text |-> s]
Rx(s)     == [kind |-> "regexp", flag |-> FALSE, text |-> s]
Cls(c)    == [kind |-> "class", flag |-> FALSE, text |-> <<c>>]
Fn(v)     == [kind |-> "function", flag |-> FALSE, text |-> <<v>>]

ShouldThrows ==
  { Absent, Bool(FALSE), Bool(TRUE),
    Str(<<>>), Str(<<"timed">>), Str(<<"bad">>), Rx(<<"boom">>),
    Cls("Error"), Cls("AssertionError"),
    Fn("accept"), Fn("reject"), Fn("throw"), Fn("throw undefined") }

Methods ==
  { [kind |-> "return", err |-> Undefined], [kind |-> "never", err |-> Undefined] }
  \cup { [kind |-> "throw", err |-> e] : e \in ThrownErrors }

\* timeout = 0 stands for "no per-test override"
TestConfigs ==
  [skip : BOOLEAN, shouldThrow : ShouldThrows, method : Methods, timeout : {0, 1}]

\* the configurations explored for suites of more than one test
CoreConfigs ==
  [skip : BOOLEAN,
   shouldThrow : {Absent, Bool(TRUE), Str(<<"bad">>)},
   method : { [kind |-> "return", err |-> Undefined],
              [kind |-> "never", err |-> Undefined],
              [kind |-> "throw", err |-> [kind |-> "Error", message |-> MsgB, line |-> 7]],
              [kind |-> "throw", err |-> [kind |-> "AssertionError", message |-> MsgA, line |-> 7]] },
   timeout : {0}]

\* the configurations explored for suites of more than two tests
BriefConfigs ==
  [skip : BOOLEAN,
   shouldThrow : {Absent},
   method : { [kind |-> "return", err |-> Undefined],
              [kind |-> "never", err |-> Undefined],
              [kind |-> "throw", err |-> [kind |-> "AssertionError", message |-> MsgA, line |-> 7]] },
   timeout : {0}]

\* every configuration for a suite of one test, fewer for longer suites
ConfigsOf(s) ==
  IF s.tests <= 1 \/ s.only > 0 THEN TestConfigs
  ELSE IF s.tests = 2 THEN CoreConfigs
  ELSE BriefConfigs

\* no test has been handed to executeTest yet
NoTest == [i |-> 0,
           test |-> [skip |-> FALSE, shouldThrow |-> Absent,
                     method |-> [kind |-> "return", err |-> Undefined],
                     timeout |-> 0]]

\* test.lines.start of the i-th test
LinesStart(i) == 10 * i

\* `test.shouldThrow` in a boolean context
Truthy(st) ==
  CASE st.kind = "absent"  -> FALSE
    [] st.kind = "boolean" -> st.flag
    [] st.kind = "string"  -> st.text # <<>>
    [] OTHER               -> TRUE

(***************************************************************************)
(* ExecuteUtil.checkError: what it returns, or what it throws              *)
(***************************************************************************)
Ret(v) == [throws |-> FALSE, value |-> v]
Thr(v) == [throws |-> TRUE, value |-> v]

Actual(err) ==
  IF InstanceOfError(err) THEN <<"'">> \o err.message \o <<"'">>
  ELSE IF IsErr(err) THEN <<"'">> \o err.message \o <<"'">>
  ELSE <<"nothing">>

checkErrorBoolean(st, err) ==
  IF IsErr(err) /\ ~st.flag
    THEN Thr(NewError(<<"Expected an error to not be thrown">>))
  ELSE IF ~IsErr(err) /\ st.flag
    THEN Thr(NewError(<<"Expected an error to be thrown">>))
  ELSE Ret(Undefined)

checkErrorString(st, err) ==
  IF ~IsErr(err) \/ ~Includes(err.message, st.text)
    THEN Ret(NewError(<<"Expected error containing text '">> \o st.text
                      \o <<"', but got">> \o Actual(err)))
    ELSE Ret(Undefined)

checkErrorRegExp(st, err) ==
  IF ~IsErr(err) \/ ~Includes(err.message, st.text)
    THEN Ret(NewError(<<"Expected error with message matching '">> \o st.text
                      \o <<"', but got">> \o Actual(err)))
    ELSE Ret(Undefined)

checkErrorClass(st, err) ==
  IF ~IsErr(err) \/ ~InstanceOf(err, st.text[1])
    THEN Ret(NewError(<<"Expected to throw", st.text[1], ", but got">>
                      \o (IF IsErr(err) THEN ErrToString(err) ELSE <<"nothing">>)))
    ELSE Ret(Undefined)

\* return st(err): the predicate's own judgment, or whatever it throws
checkErrorFunction(st, err) ==
  CASE st.text[1] = "accept" -> Ret(Undefined)
    [] st.text[1] = "reject" -> Ret(NewError(<<"rejected">>))
    [] st.text[1] = "throw"  -> Thr(NewError(<<"predicate failed">>))
    [] OTHER                 -> Thr(Undefined)

checkError(test, err) ==
  LET st == test.shouldThrow IN
  CASE st.kind = "boolean"  -> checkErrorBoolean(st, err)
    [] st.kind = "string"   -> checkErrorString(st, err)
    [] st.kind = "regexp"   -> checkErrorRegExp(st, err)
    [] st.kind = "class"    -> checkErrorClass(st, err)
    [] OTHER                -> checkErrorFunction(st, err)

(***************************************************************************)
(* ExecuteUtil.executeTest                                                 *)
(***************************************************************************)
\* ExecuteUtil.timeout, in ticks
timeout == 2
\* asyncTimeout ignoring the per-test override
asyncTimeoutDefaultOnly(duration) == timeout

\* the delay of the timer asyncTimeout(duration) starts
asyncTimeout(duration) == IF duration # 0 THEN duration ELSE timeout

\* Normalize feeding the timeout error through checkError as well
NormalizeValidatesTimeout(test, err) ==
  LET e == IF err = TIMEOUT THEN NewError(TimedOutMsg) ELSE err IN
  IF Truthy(test.shouldThrow) THEN checkError(test, e) ELSE Ret(e)

\* the catch block's first statement: which error the outcome is judged by
Normalize(test, err) ==
  IF err = TIMEOUT THEN Ret(NewError(TimedOutMsg))
  ELSE IF Truthy(test.shouldThrow) THEN checkError(test, err)
  ELSE Ret(err)

\* Uncaught without the fallback to test.lines.start
UncaughtKeepsLine(i, err) ==
  [operator |-> "throws", text |-> "(uncaught)",
   line |-> err.line,
   message |-> IF err.kind = "string" THEN <<>> ELSE err.message]

\* the Assertion added for an error that is not an AssertionError
Uncaught(i, err) ==
  [operator |-> "throws", text |-> "(uncaught)",
   line |-> IF err.line = 1 THEN LinesStart(i) ELSE err.line,
   message |-> IF err.kind = "string" THEN <<>> ELSE err.message]

SkipResult(i) ==
  [methodName |-> "test", idx |-> i, status |-> "skip",
   error |-> Undefined, assertions |-> <<>>]

\* the TestResult the catch block builds from the judged error
TestResultOf(i, err) ==
  IF ~IsErr(err)
    THEN [SkipResult(i) EXCEPT !.status = "success"]
    ELSE [SkipResult(i) EXCEPT
            !.status = "fail",
            !.error = err,
            !.assertions = IF err.kind # "AssertionError"
                             THEN <<Uncaught(i, err)>> ELSE <<>>]

(***************************************************************************)
(* Events                                                                  *)
(***************************************************************************)
Ev(type, phase, name, i) == [type |-> type, phase |-> phase, name |-> name, idx |-> i]

(***************************************************************************)
(* ExecuteUtil.generateSuiteError                                          *)
(***************************************************************************)
generateSuiteError(description, error) ==
  [methodName |-> description, idx |-> 0, status |-> "fail", error |-> error,
   assertions |-> <<[operator |-> "throws", text |-> "(outer)",
                     line |-> error.line,
                     message |-> IF error.kind = "string" THEN <<>> ELSE error.message]>>]

\* SuiteErrorEvents with the assertion delivered after `test after`
SuiteErrorEventsAssertionLast(description) ==
  << Ev("test", "before", description, 0),
     Ev("test", "after", description, 0),
     Ev("assertion", "after", "(outer)", 0) >>

\* generateSuiteError: the three events of the synthetic suite-level failure
SuiteErrorEvents(description) ==
  << Ev("test", "before", description, 0),
     Ev("assertion", "after", "(outer)", 0),
     Ev("test", "after", description, 0) >>

(***************************************************************************)
(* ExecuteUtil.executeSuite                                                *)
(***************************************************************************)
Phases == {"beforeAll", "beforeEach", "afterEach", "afterAll"}

EmptyResult == [success |-> 0, fail |-> 0, skip |-> 0, total |-> 0, tests |-> <<>>]

\* TestRun with a fresh instance of the suite's class for every test
TestRunFreshInstance(i) == [what |-> "test", idx |-> i, this |-> suite.instance + i]

\* suite.instance[test.methodName]() and fn.call(suite.instance): `this` is the
\* instance the SuiteConfig holds
TestRun(i) == [what |-> "test", idx |-> i, this |-> suite.instance]
HookRun(phase, i) == [what |-> phase, idx |-> i, this |-> suite.instance]

\* result[ret.status]++; result.tests.push(ret)
Count(res, ret) ==
  [res EXCEPT ![ret.status] = @ + 1, !.tests = Append(@, ret)]

\* what the caller of executeTest does with the TestResult it returns:
\* executeSuite counts and keeps it, executeSuiteTest (suite.only is the
\* selected test) awaits the call and drops what it returns
Tally(res, ret) == IF suite.only > 0 THEN res ELSE Count(res, ret)

\* PushSuiteError assigning the list instead of pushing onto it
PushSuiteErrorReplaces(res, bad) == [res EXCEPT !.tests = <<bad>>]

\* result.tests.push(res) of a synthetic suite-level failure
PushSuiteError(res, bad) == [res EXCEPT !.tests = Append(@, bad)]

\* Finish with result.total = result.success, leaving the failures out
FinishTotalIsSuccess(res, evs) ==
  /\ events' = Append(evs, Ev("suite", "after", "suite", 0))
  /\ delivered' = res
  /\ result' = [res EXCEPT !.total = res.success]
  /\ pc' = "done"

\* consumer.onEvent({phase: 'after', type: 'suite'}); result.total = ...; return
\* executeSuiteTest ends without either: it emits no suite event and returns
\* nothing
Finish(res, evs) ==
  /\ events' = IF suite.only > 0 THEN evs
                ELSE Append(evs, Ev("suite", "after", "suite", 0))
  /\ delivered' = IF suite.only > 0 THEN delivered ELSE res
  /\ result' = IF suite.only > 0 THEN res
                ELSE [res EXCEPT !.total = res.success + res.fail]
  /\ pc' = "done"

\* the catch of executeSuite, for an error e thrown inside the try.
\* generateSuiteError reads e.message before anything else: when e is
\* undefined the TypeError this raises is thrown from inside the catch, and
\* executeSuite rejects with it
onError(e, res, evs) ==
  IF e = BREAKOUT
    THEN Finish(res, evs)
  ELSE IF ~IsErr(e)
    THEN /\ pc' = "threw"
         /\ result' = res
         /\ events' = evs
         /\ UNCHANGED delivered
  ELSE Finish(PushSuiteError(res, generateSuiteError("all", e)),
              evs \o SuiteErrorEvents("all"))

SuiteInit ==
  /\ pc = "init"
  \* a listener that returns changes nothing, so the phases of one kind are
  \* given the same number of listeners: none, or as many as the bound allows
  /\ suite \in { [tests |-> n, beforeAll |-> a, beforeEach |-> e,
                  afterEach |-> e, afterAll |-> a, only |-> 0, instance |-> 0] :
                    n \in 0..MaxTests, a \in {0, MaxListeners}, e \in {0, MaxListeners} }
  /\ idx = 0
  /\ li = 0
  /\ cur = NoTest
  /\ elapsed = 0
  /\ running = {}
  /\ scopes = {}
  /\ result = EmptyResult
  /\ events = <<>>
  /\ hooks = <<>>
  /\ delivered = EmptyResult

SuiteIdle ==
  /\ pc = "idle"
  /\ suite = [tests |-> 0, beforeAll |-> 0, beforeEach |-> 0,
              afterEach |-> 0, afterAll |-> 0, only |-> 0, instance |-> 0]
  /\ idx = 0
  /\ li = 0
  /\ cur = NoTest
  /\ elapsed = 0
  /\ running = {}
  /\ scopes = {}
  /\ result = EmptyResult
  /\ events = <<>>
  /\ hooks = <<>>
  /\ delivered = EmptyResult

\* $TestRegistry.onInstallFinalize: the registry finalizes the suite's class,
\* once, before anything is executed; suite.instance counts the instances
\* created and names the one the SuiteConfig holds
onInstallFinalize ==
  /\ pc = "init"
  /\ suite.instance = 0
  /\ suite' = [suite EXCEPT !.instance = @ + 1]
  /\ UNCHANGED <<pc, idx, li, cur, elapsed, running, scopes, result, events, hooks,
                 delivered>>
  /\ UNCHANGED execVars

\* executeSuite up to its first await
StartSuite ==
  /\ pc = "init"
  /\ suite.instance > 0
  /\ suite.only = 0
  /\ events' = Append(events, Ev("suite", "before", "suite", 0))
  /\ pc' = "beforeAll"
  /\ li' = 0
  /\ UNCHANGED <<suite, idx, cur, elapsed, running, scopes, result, hooks, delivered>>
  /\ UNCHANGED execVars

\* affixProcess: one listener of the phase resolves before the timer
ListenerReturns ==
  /\ pc \in Phases
  /\ li < suite[pc]
  /\ li' = li + 1
  /\ hooks' = Append(hooks, HookRun(pc, idx))
  /\ UNCHANGED <<pc, suite, idx, cur, elapsed, running, scopes, result, events, delivered>>
  /\ UNCHANGED execVars

\* what reading `error.message` throws when error is undefined
MessageOfUndefined ==
  [kind |-> "Error", message |-> <<"Cannot", "read", "message", "of", "undefined">>,
   line |-> 1]

\* affixProcess: the catch, for the error of a listener that threw or lost
\* the race against asyncTimeout().  generateSuiteError reads error.message
\* before it pushes or emits anything: for a listener that threw undefined
\* this is a TypeError, which leaves affixProcess in place of BREAKOUT
affixProcessCatch(phase, error) ==
  IF ~IsErr(error)
    THEN onError(MessageOfUndefined, result, events)
    ELSE onError(BREAKOUT,
                 PushSuiteError(result, generateSuiteError(phase, error)),
                 events \o SuiteErrorEvents(phase))

\* a listener throws, or rejects with, an error, a string or nothing at all
ListenerThrows ==
  /\ pc \in Phases
  /\ li < suite[pc]
  /\ \E e \in ThrownErrors \cup {Undefined} : affixProcessCatch(pc, e)
  /\ hooks' = Append(hooks, HookRun(pc, idx))
  /\ UNCHANGED <<suite, idx, li, cur, elapsed, running, scopes>>
  /\ UNCHANGED execVars

ListenerTimesOut ==
  /\ pc \in Phases
  /\ li < suite[pc]
  /\ affixProcessCatch(pc, NewError(<<"suite:", pc, "timed out">>))
  /\ running' = running \cup {HookRun(pc, idx)}
  /\ hooks' = Append(hooks, HookRun(pc, idx))
  /\ UNCHANGED <<suite, idx, li, cur, elapsed, scopes>>
  /\ UNCHANGED execVars

\* affixProcess returns: every listener of the phase has run
PhaseEnds ==
  /\ pc \in Phases
  /\ li = suite[pc]
  /\ li' = 0
  /\ CASE pc = "beforeAll" /\ suite.only > 0 ->
            /\ pc' = "beforeEach"
            /\ idx' = suite.only
            /\ UNCHANGED <<result, events, delivered>>
       [] pc = "beforeAll" /\ suite.only = 0 ->
            /\ pc' = IF suite.tests > 0 THEN "beforeEach" ELSE "afterAll"
            /\ idx' = IF suite.tests > 0 THEN 1 ELSE idx
            /\ UNCHANGED <<result, events, delivered>>
       [] pc = "beforeEach" ->
            /\ pc' = "test"
            /\ UNCHANGED <<idx, result, events, delivered>>
       [] pc = "afterEach" /\ suite.only > 0 ->
            /\ pc' = "afterAll"
            /\ UNCHANGED <<idx, result, events, delivered>>
       [] pc = "afterEach" /\ suite.only = 0 ->
            /\ pc' = IF idx < suite.tests THEN "beforeEach" ELSE "afterAll"
            /\ idx' = IF idx < suite.tests THEN idx + 1 ELSE idx
            /\ UNCHANGED <<result, events, delivered>>
       [] OTHER ->
            /\ Finish(result, events)
            /\ UNCHANGED idx
  /\ UNCHANGED <<suite, cur, elapsed, running, scopes, hooks>>
  /\ UNCHANGED execVars

\* TestBegins with the timer and the capture scopes set up before test.skip
\* is looked at
TestBeginsOpensFirst ==
  /\ pc = "test"
  /\ \E t \in ConfigsOf(suite) :
       /\ cur' = [i |-> idx, test |-> t]
       /\ events' = Append(events, Ev("test", "before", "test", idx))
       /\ scopes' = {"timer", "console", "assert"}
       /\ IF t.skip
            THEN /\ result' = Tally(result, SkipResult(idx))
                 /\ pc' = "afterEach"
                 /\ UNCHANGED <<elapsed, running>>
            ELSE /\ running' = running \cup {TestRun(idx)}
                 /\ elapsed' = 0
                 /\ pc' = "racing"
                 /\ UNCHANGED result
  /\ li' = 0
  /\ UNCHANGED <<suite, idx, hooks, delivered>>
  /\ UNCHANGED execVars

\* executeTest up to the await of the race (or its early return for a skipped
\* test, and then executeSuite's bookkeeping)
TestBegins ==
  /\ pc = "test"
  /\ \E t \in ConfigsOf(suite) :
       /\ cur' = [i |-> idx, test |-> t]
       /\ events' = Append(events, Ev("test", "before", "test", idx))
       /\ IF t.skip
            THEN /\ result' = Tally(result, SkipResult(idx))
                 /\ pc' = "afterEach"
                 /\ UNCHANGED <<elapsed, running, scopes>>
            ELSE /\ scopes' = {"timer", "console", "assert"}
                 /\ running' = running \cup {TestRun(idx)}
                 /\ elapsed' = 0
                 /\ pc' = "racing"
                 /\ UNCHANGED result
  /\ li' = 0
  /\ UNCHANGED <<suite, idx, hooks, delivered>>
  /\ UNCHANGED execVars

\* TestCompletes with the cleanup after the catch instead of in a finally: an
\* error that escapes the catch leaves the captures and the timer as they are
TestCompletesCleansUpOnReturn(err) ==
  LET judged == Normalize(cur.test, err) IN
  /\ scopes' = IF judged.throws THEN scopes ELSE {}
  /\ IF judged.throws
       THEN onError(judged.value, result, events)
       ELSE LET ret == TestResultOf(idx, judged.value) IN
            /\ events' = events
                 \o (IF ret.assertions # <<>>
                       THEN <<Ev("assertion", "after", "(uncaught)", idx)>> ELSE <<>>)
                 \o <<Ev("test", "after", "test", idx)>>
            /\ result' = Tally(result, ret)
            /\ pc' = "afterEach"
            /\ UNCHANGED delivered

\* TestCompletes without the finally block: the captures and the timer are
\* left as they are
TestCompletesLeavesScopes(err) ==
  LET judged == Normalize(cur.test, err) IN
  /\ scopes' = scopes
  /\ IF judged.throws
       THEN onError(judged.value, result, events)
       ELSE LET ret == TestResultOf(idx, judged.value) IN
            /\ events' = events
                 \o (IF ret.assertions # <<>>
                       THEN <<Ev("assertion", "after", "(uncaught)", idx)>> ELSE <<>>)
                 \o <<Ev("test", "after", "test", idx)>>
            /\ result' = Tally(result, ret)
            /\ pc' = "afterEach"
            /\ UNCHANGED delivered

\* the rest of executeTest once the race has settled with err (Undefined for a
\* normal return), and what executeSuite does with its outcome
TestCompletes(err) ==
  LET judged == Normalize(cur.test, err) IN
  /\ scopes' = {}
  /\ IF judged.throws
       THEN onError(judged.value, result, events)
       ELSE LET ret == TestResultOf(idx, judged.value) IN
            /\ events' = events
                 \o (IF ret.assertions # <<>>
                       THEN <<Ev("assertion", "after", "(uncaught)", idx)>> ELSE <<>>)
                 \o <<Ev("test", "after", "test", idx)>>
            /\ result' = Tally(result, ret)
            /\ pc' = "afterEach"
            /\ UNCHANGED delivered

\* the listener given to AssertUtil.start: an assertion checked by a test
\* method (the one in the race, or one abandoned by an earlier timeout) while
\* the scope is open is delivered to the consumer at once, as an assertion of
\* the test the scope was opened for.  One checked assertion per scope is
\* followed.
MethodAsserts ==
  /\ pc = "racing"
  /\ "assert" \in scopes
  /\ \E r \in running : r.what = "test"
  /\ \A k \in 1..Len(events) : events[k] # Ev("assertion", "after", "check", idx)
  /\ events' = Append(events, Ev("assertion", "after", "check", idx))
  /\ UNCHANGED <<pc, suite, idx, li, cur, elapsed, running, scopes, result, hooks, delivered>>
  /\ UNCHANGED execVars

Tick ==
  /\ pc = "racing"
  /\ elapsed < asyncTimeout(cur.test.timeout)
  /\ elapsed' = elapsed + 1
  /\ UNCHANGED <<pc, suite, idx, li, cur, running, scopes, result, events, hooks, delivered>>
  /\ UNCHANGED execVars

MethodSettles ==
  /\ pc = "racing"
  /\ cur.test.method.kind # "never"
  /\ TestCompletes(cur.test.method.err)
  /\ running' = running \ {TestRun(idx)}
  /\ UNCHANGED <<suite, idx, li, cur, elapsed, hooks>>
  /\ UNCHANGED execVars

TimerFires ==
  /\ pc = "racing"
  /\ elapsed = asyncTimeout(cur.test.timeout)
  /\ TestCompletes(TIMEOUT)
  /\ UNCHANGED <<suite, idx, li, cur, elapsed, running, hooks>>
  /\ UNCHANGED execVars

\* executeSuiteTest up to its first await: no suite event is emitted
StartSuiteTest ==
  /\ pc = "init"
  /\ suite.instance > 0
  /\ suite.only > 0
  /\ pc' = "beforeAll"
  /\ li' = 0
  /\ UNCHANGED <<suite, idx, cur, elapsed, running, scopes, result, events, hooks, delivered>>
  /\ UNCHANGED execVars

SuiteNext ==
  \/ onInstallFinalize
  \/ StartSuite
  \/ ListenerReturns
  \/ ListenerThrows
  \/ ListenerTimesOut
  \/ PhaseEnds
  \/ TestBegins
  \/ MethodAsserts
  \/ Tick
  \/ MethodSettles
  \/ TimerFires

\* ExecuteUtil.executeSuiteTest(consumer, suite, test): the lifecycle around
\* the one test `test` of the suite
SuiteTestNext ==
  \/ onInstallFinalize
  \/ StartSuiteTest
  \/ ListenerReturns
  \/ ListenerThrows
  \/ ListenerTimesOut
  \/ PhaseEnds
  \/ TestBegins
  \/ MethodAsserts
  \/ Tick
  \/ MethodSettles
  \/ TimerFires

\* the state executeSuiteTest is called in: a suite of one test or more, and
\* the position in suite.tests of the test it is called for
SuiteTestInit ==
  /\ pc = "init"
  /\ suite \in { [tests |-> n, beforeAll |-> a, beforeEach |-> e,
                  afterEach |-> e, afterAll |-> a, only |-> o, instance |-> 0] :
                    n \in 1..MaxTests, a \in {0, MaxListeners},
                    e \in {0, MaxListeners}, o \in 1..MaxTests }
  /\ suite.only <= suite.tests
  /\ idx = 0
  /\ li = 0
  /\ cur = NoTest
  /\ elapsed = 0
  /\ running = {}
  /\ scopes = {}
  /\ result = EmptyResult
  /\ events = <<>>
  /\ hooks = <<>>
  /\ delivered = EmptyResult

(***************************************************************************)
(* Executor (the multi-file orchestrator)                                  *)
(***************************************************************************)
\* BASE_COUNT with suites: []
BaseResults == [passed |-> 0, failed |-> 0, skipped |-> 0, total |-> 0, suites |-> <<>>]

\* spawnFile's `let suites: SuitesResult;` before any message has arrived
NoMessage == [defined |-> FALSE, suites |-> BaseResults]

\* what the child running file f can send: the SuitesResult of executeFile,
\* one suite per file, tagged with the file
ChildResults(f) ==
  { [passed |-> c[1], failed |-> c[2], skipped |-> c[3], total |-> c[1] + c[2],
     suites |-> <<f>>] :
      c \in { <<1, 0, 0>>, <<0, 1, 0>>, <<1, 1, 1>>, <<0, 0, 1>> } }

\* Executor.executors
executors(n) == n - 1

\* merge that forgets to add the failed counter
mergeDropsFailed(dest, src) ==
  [dest EXCEPT !.suites  = IF "suites" \in DOMAIN src
                             THEN @ \o src.suites ELSE Append(@, src),
               !.passed  = @ + src.passed,
               !.skipped = @ + src.skipped,
               !.total   = @ + src.total]

\* merge that assigns the total counter instead of adding to it
mergeAssignsTotal(dest, src) ==
  [dest EXCEPT !.suites  = IF "suites" \in DOMAIN src
                             THEN @ \o src.suites ELSE Append(@, src),
               !.failed  = @ + src.failed,
               !.passed  = @ + src.passed,
               !.skipped = @ + src.skipped,
               !.total   = src.total]

\* Executor.merge: src is a SuitesResult (its suites are pushed) or a
\* SuiteResult (it is pushed itself)
merge(dest, src) ==
  [dest EXCEPT !.suites  = IF "suites" \in DOMAIN src
                             THEN @ \o src.suites ELSE Append(@, src),
               !.failed  = @ + src.failed,
               !.passed  = @ + src.passed,
               !.skipped = @ + src.skipped,
               !.total   = @ + src.total]

\* HasFreeSlot with <= for <
HasFreeSlotOffByOne == Cardinality(DOMAIN pending) <= executors(cpus)

\* the guard of the dispatch branch of exec's loop
HasFreeSlot == Cardinality(DOMAIN pending) < executors(cpus)

\* exec after getTests: `if (files.length === 1)` chooses the in-process run
ExecInit ==
  /\ cpus \in 1..MaxCpus
  /\ nfiles \in 0..MaxFiles
  /\ epc = (IF nfiles = 1 THEN "single" ELSE "loop")
  /\ position = 0
  /\ pending = << >>
  /\ child = << >>
  /\ results = BaseResults
  /\ thrown = "none"
  /\ exitCode = -1

ExecIdle ==
  /\ epc = "idle"
  /\ cpus = 1
  /\ nfiles = 0
  /\ position = 0
  /\ pending = << >>
  /\ child = << >>
  /\ results = BaseResults
  /\ thrown = "none"
  /\ exitCode = -1

\* f :> v, without the TLC module's operator
Put(fn, k, v) == [x \in DOMAIN fn \cup {k} |-> IF x = k THEN v ELSE fn[x]]
\* Del removing the entry dispatched first, whichever k is
DelOldest(fn, k) ==
  LET oldest == CHOOSE x \in DOMAIN fn : \A y \in DOMAIN fn : x <= y
  IN [x \in DOMAIN fn \ {oldest} |-> fn[x]]

\* Executor.pending.delete(k)
Del(fn, k) == [x \in DOMAIN fn \ {k} |-> fn[x]]

\* exec: the dispatch branch; spawnFile up to `await spawned`
Dispatch ==
  /\ epc = "loop"
  /\ position < nfiles
  /\ HasFreeSlot
  /\ pending' = Put(pending, position, "pending")
  /\ child' = Put(child, position, NoMessage)
  /\ position' = position + 1
  /\ UNCHANGED <<epc, cpus, nfiles, results, thrown, exitCode>>
  /\ UNCHANGED suiteVars

\* exec: the other branch suspends in `await Promise.race(pending.values())`
AwaitRace ==
  /\ epc = "loop"
  /\ position < nfiles
  /\ ~HasFreeSlot
  /\ epc' = "race"
  /\ UNCHANGED <<cpus, nfiles, position, pending, child, results, thrown, exitCode>>
  /\ UNCHANGED suiteVars

\* exec: the loop is over, `await Promise.all(pending.values())`
AwaitAll ==
  /\ epc = "loop"
  /\ position = nfiles
  /\ epc' = "all"
  /\ UNCHANGED <<cpus, nfiles, position, pending, child, results, thrown, exitCode>>
  /\ UNCHANGED suiteVars

\* sub.on('message', res => suites = res).  The events of the children are
\* handled only while exec is suspended in an await: the loop between two
\* awaits runs to completion.
ChildMessage(id) ==
  /\ epc \in {"race", "all"}
  /\ id \in DOMAIN pending
  /\ pending[id] = "pending"
  /\ child[id] = NoMessage
  /\ \E r \in ChildResults(id) :
       child' = [child EXCEPT ![id] = [defined |-> TRUE, suites |-> r]]
  /\ UNCHANGED <<epc, cpus, nfiles, position, pending, results, thrown, exitCode>>
  /\ UNCHANGED suiteVars

\* merge(results, done.results), where done.results may be undefined
MergeDone(res, id) ==
  IF ~child[id].defined
    THEN [ok |-> FALSE, results |-> res]
    ELSE [ok |-> TRUE, results |-> merge(res, child[id].suites)]

RECURSIVE MergeAll(_, _)
\* for (let done of final) merge(results, done.results), in the order of ids
MergeAll(res, ids) ==
  IF ids = {} THEN [ok |-> TRUE, results |-> res]
  ELSE LET id == CHOOSE x \in ids : \A y \in ids : x <= y
           m  == MergeDone(res, id)
       IN IF m.ok THEN MergeAll(m.results, ids \ {id}) ELSE m

\* the child of `id` exits; spawnFile settles; exec resumes if it waits for it
ChildExit(id, valid) ==
  /\ epc \in {"race", "all"}
  /\ id \in DOMAIN pending
  /\ pending[id] = "pending"
  /\ LET settled == IF valid THEN "resolved" ELSE "rejected"
         pend    == [pending EXCEPT ![id] = settled]
     IN
     IF ~valid
       THEN \* throw new Error(results.stderr) rejects the race or the all
            /\ pending' = pend
            /\ epc' = "threw"
            /\ thrown' = "stderr"
            /\ UNCHANGED results
       ELSE IF epc = "race"
         THEN LET m == MergeDone(results, id) IN
              /\ results' = m.results
              /\ IF m.ok
                   THEN /\ pending' = Del(pend, id)
                        /\ epc' = "loop"
                        /\ UNCHANGED thrown
                   ELSE /\ pending' = pend
                        /\ epc' = "threw"
                        /\ thrown' = "TypeError"
         ELSE IF \A j \in DOMAIN pend : pend[j] = "resolved"
           THEN LET m == MergeAll(results, DOMAIN pend) IN
                /\ pending' = pend
                /\ results' = m.results
                /\ epc' = IF m.ok THEN "returned" ELSE "threw"
                /\ thrown' = IF m.ok THEN thrown ELSE "TypeError"
           ELSE /\ pending' = pend
                /\ UNCHANGED <<epc, results, thrown, exitCode>>
  /\ UNCHANGED <<cpus, nfiles, position, child, exitCode>>
  /\ UNCHANGED suiteVars

\* Promise.all of no promise at all resolves at once
AllOfNone ==
  /\ epc = "all"
  /\ DOMAIN pending = {}
  /\ epc' = "returned"
  /\ UNCHANGED <<cpus, nfiles, position, pending, child, results, thrown, exitCode>>
  /\ UNCHANGED suiteVars

\* the argument of process.exit in the single-file branch, whatever `single` is
SingleExit(single) == 0

\* exec with one file: `single = await executeFile(files[0])` in this process
\* (what a child sends its parent is this very value), then process.exit
SingleFile ==
  /\ epc = "single"
  /\ \E single \in ChildResults(0) :
       /\ results' = single
       /\ exitCode' = SingleExit(single)
  /\ epc' = "exited"
  /\ UNCHANGED <<cpus, nfiles, position, pending, child, thrown>>
  /\ UNCHANGED suiteVars

ExecNext ==
  \/ SingleFile
  \/ Dispatch
  \/ AwaitRace
  \/ AwaitAll
  \/ \E id \in 0..(MaxFiles - 1) : ChildMessage(id)
  \/ \E id \in 0..(MaxFiles - 1) : \E valid \in BOOLEAN : ChildExit(id, valid)
  \/ AllOfNone

(***************************************************************************)
(* Specifications                                                          *)
(***************************************************************************)
\* one executeSuite run in a process that orchestrates nothing
SuiteRunInit == SuiteInit /\ ExecIdle
SuiteSpec == SuiteRunInit /\ [][SuiteNext]_vars

\* one executeSuiteTest run
SuiteTestRunInit == SuiteTestInit /\ ExecIdle
SuiteTestSpec == SuiteTestRunInit /\ [][SuiteTestNext]_vars

\* one Executor.exec run of the parent process, which runs no suite itself
ExecRunInit == ExecInit /\ SuiteIdle
ExecSpec == ExecRunInit /\ [][ExecNext]_vars

(***************************************************************************)
(* Properties of executeSuite / executeTest                                *)
(***************************************************************************)
\* the entries of result.tests that executeTest returned for test i
EntriesOf(i) == { k \in 1..Len(result.tests) : result.tests[k].idx = i }
\* the entries of result.tests that are synthetic suite-level failures
SuiteErrors == { k \in 1..Len(result.tests) : result.tests[k].idx = 0 }
Counted == result.success + result.fail + result.skip

\* executeTest has been called for cur and is not in progress any more
Completed == cur.i >= 1 /\ pc # "racing"
\* ... after its method settled before the timer
MethodWon == Completed /\ ~cur.test.skip /\ TestRun(cur.i) \notin running
\* ... after the timer fired before its method settled
TimedOut == Completed /\ ~cur.test.skip /\ TestRun(cur.i) \in running

\* C1 (as claimed): once executeSuite has returned, total = success + fail and
\* success + fail + skip = len(suite.tests)
C1_CountsCoverAllTests ==
  pc = "done" =>
    /\ result.total = result.success + result.fail
    /\ Counted = suite.tests

\* C1 (amended): once executeSuite has returned, total = success + fail, and
\* success + fail + skip is the number of tests executeTest returned a result
\* for: at most len(suite.tests), and exactly len(suite.tests) when the run
\* recorded no suite-level failure
C1_CountsCoverExecutedTests ==
  pc = "done" =>
    /\ result.total = result.success + result.fail
    /\ Counted = Len(result.tests) - Cardinality(SuiteErrors)
    /\ Counted <= suite.tests
    /\ (SuiteErrors = {} => Counted = suite.tests)

C1_Witness ==
  /\ pc = "done"
  /\ suite.tests = 2
  /\ result.fail = 1
  /\ Counted = 1
  /\ result.total = 1
  /\ SuiteErrors # {}

\* C2: a test with shouldThrow = true whose method threw has a TestResult of
\* status success in the suite's result, and one whose method returned
\* normally has a TestResult of status fail
C2_ShouldThrowTrue ==
  (MethodWon /\ cur.test.shouldThrow = Bool(TRUE)) =>
    \E k \in EntriesOf(cur.i) :
      result.tests[k].status =
        (IF cur.test.method.kind = "throw" THEN "success" ELSE "fail")

\* C3: when no lifecycle hook failed, every test of the suite has its own
\* TestResult once executeSuite has returned, whatever the tests did (the
\* expectations that are predicates of the user's are left aside)
C3_TestFailureNeverAborts ==
  ( /\ pc = "done"
    /\ \A k \in SuiteErrors : result.tests[k].methodName \notin Phases
    /\ cur.test.shouldThrow.kind # "function" ) =>
    \A i \in 1..suite.tests : EntriesOf(i) # {}

C5_NeverResolvingTestTimesOut ==
  ( /\ Completed
    /\ ~cur.test.skip
    /\ cur.test.method.kind = "never"
    /\ ~Truthy(cur.test.shouldThrow) ) =>
    /\ EntriesOf(cur.i) # {}
    /\ \A k \in EntriesOf(cur.i) :
         /\ result.tests[k].status = "fail"
         /\ result.tests[k].error.message = TimedOutMsg
    /\ elapsed = (IF cur.test.timeout # 0 THEN cur.test.timeout ELSE timeout)
    /\ TestRun(cur.i) \in running

C5_Witness ==
  /\ Completed
  /\ ~cur.test.skip
  /\ cur.test.method.kind = "never"
  /\ cur.test.shouldThrow = Absent
  /\ cur.test.timeout = 1
  /\ elapsed = 1
  /\ pc = "afterEach"
  /\ result.fail = 1

\* the run ended because a beforeEach listener failed
BeforeEachFailed ==
  /\ pc = "done"
  /\ result.tests # <<>>
  /\ result.tests[Len(result.tests)].methodName = "beforeEach"

\* C6: the step in which a beforeEach listener fails before test idx leaves
\* the results recorded so far and the three counters as they were, and in
\* the run it ends none of the tests idx..n has a result, an event or an
\* invocation
C6_BeforeEachFailureAborts ==
  /\ [][ (pc = "beforeEach" /\ pc' = "done") =>
           /\ SubSeq(result'.tests, 1, Len(result.tests)) = result.tests
           /\ Len(result'.tests) = Len(result.tests) + 1
           /\ result'.success = result.success
           /\ result'.fail = result.fail
           /\ result'.skip = result.skip
           /\ idx' = idx ]_vars
  /\ [](BeforeEachFailed =>
          /\ \A i \in idx..suite.tests :
               /\ EntriesOf(i) = {}
               /\ TestRun(i) \notin running
          /\ \A k \in 1..Len(events) : events[k].idx < idx
          /\ \A i \in 1..(idx - 1) : Cardinality(EntriesOf(i)) = 1)

C6_Witness ==
  /\ BeforeEachFailed
  /\ idx = 2
  /\ suite.tests = 2
  /\ Len(result.tests) = 2
  /\ result.tests[1].idx = 1
  /\ result.tests[1].status = "fail"
  /\ result.fail = 1

(***************************************************************************)
(* Properties of Executor.exec                                             *)
(***************************************************************************)
RECURSIVE SumOf(_, _)
\* the sum of a counter over the messages of the files in fs
SumOf(field, fs) ==
  IF fs = {} THEN 0
  ELSE LET f == CHOOSE x \in fs : TRUE
       IN child[f].suites[field] + SumOf(field, fs \ {f})

Files == 0..(nfiles - 1)

\* C7: the pending set never holds more entries than the concurrency bound
C7_PendingWithinBound ==
  Cardinality(DOMAIN pending) <= cpus - 1

C7_Witness ==
  /\ epc = "race"
  /\ cpus = 3
  /\ nfiles = 4
  /\ position = 3
  /\ Cardinality(DOMAIN pending) = 2

\* C8: when a multi-file run returns, every file's SuitesResult is in the
\* aggregate exactly once and the four counters are the sums over the files
C8_EveryFileMergedOnce ==
  epc = "returned" =>
    /\ DOMAIN child = Files
    /\ \A f \in Files : child[f].defined
    /\ Len(results.suites) = nfiles
    /\ \A f \in Files :
         Cardinality({ k \in 1..Len(results.suites) : results.suites[k] = f }) = 1
    /\ results.passed  = SumOf("passed", Files)
    /\ results.failed  = SumOf("failed", Files)
    /\ results.skipped = SumOf("skipped", Files)
    /\ results.total   = SumOf("total", Files)

C8_Witness ==
  /\ epc = "returned"
  /\ nfiles = 4
  /\ cpus = 3
  /\ results.suites = <<1, 0, 2, 3>>
  /\ results.failed = 2
  /\ results.passed = 3
  /\ results.skipped = 3

\* C9: the failure of one worker never aborts the run
C9_WorkerFailureIsolated ==
  (\E id \in DOMAIN pending : pending[id] = "rejected") => epc # "threw"

\* C10: the concurrency bound is the CPU count less one, and never less than 1
C10_BoundAtLeastOne ==
  executors(cpus) = (IF cpus - 1 < 1 THEN 1 ELSE cpus - 1)

\* C11: with two files or more and one CPU or more, exec never blocks forever:
\* whenever it suspends in `await Promise.race(pending.values())` the pending
\* set holds a promise that a completing child will settle
C11_NeverWaitsOnEmptyPending ==
  (epc = "race" /\ nfiles >= 2 /\ cpus >= 1) => DOMAIN pending # {}

\* C12: the exit code of a run is 0 if and only if the failed counter of its
\* aggregate is 0, and 1 otherwise
C12_ExitCodeReflectsFailed ==
  epc = "exited" => exitCode = (IF results.failed = 0 THEN 0 ELSE 1)

\* the SuitesResult values received from the children so far
Messages == { child[f].suites : f \in { g \in DOMAIN child : child[g].defined } }

\* the SuitesResult values at hand in a run: the aggregate under construction
\* and the messages received from the children
Operands == {results} \cup Messages

\* the number of entries of the list s equal to x
Occurrences(s, x) == Cardinality({ k \in 1..Len(s) : s[k] = x })

\* the lists s and t are equal as multisets
SameEntries(s, t) ==
  /\ Len(s) = Len(t)
  /\ \A k \in 1..Len(s) : Occurrences(s, s[k]) = Occurrences(t, s[k])

\* the aggregates x and y have the same counters and the same suites, in
\* whatever order
SameAggregate(x, y) ==
  /\ x.passed = y.passed
  /\ x.failed = y.failed
  /\ x.skipped = y.skipped
  /\ x.total = y.total
  /\ SameEntries(x.suites, y.suites)

\* C13: merge is commutative and associative: whenever exec has merged what
\* it awaited, merging A then B into the empty aggregate, or B then A, gives
\* the same counters and the same multiset of suites (A, B: the running
\* aggregate or a child's message), and merging B then C into the running
\* aggregate gives what merging the merge of B and C into it gives
C13_MergeCommutes ==
  LET ops  == Operands
      msgs == Messages
  IN epc \in {"loop", "returned"} =>
     /\ \A A \in ops : \A B \in ops :
          SameAggregate(merge(merge(BaseResults, A), B),
                        merge(merge(BaseResults, B), A))
     /\ \A B \in msgs : \A C \in msgs :
          SameAggregate(merge(merge(results, B), C),
                        merge(results, merge(merge(BaseResults, B), C)))

C13_Witness ==
  epc = "loop" /\ \E A \in Operands : \E B \in Operands :
    /\ Len(A.suites) = 2
    /\ A.failed = 2
    /\ B.failed = 1
    /\ A.total # B.total
    /\ \E k \in 1..2 : A.suites[k] = B.suites[1]
    /\ merge(merge(BaseResults, A), B).suites # merge(merge(BaseResults, B), A).suites

(***************************************************************************)
(* Further properties of executeSuite / executeTest                        *)
(***************************************************************************)
\* C14: the step that hands a skipped test to executeTest opens no capture
\* scope, starts no timer and no invocation, and records one result of status
\* skip for it; a skipped test is never in the race afterwards
C14_SkipOpensNothing ==
  /\ [][ (cur'.i # cur.i /\ cur'.test.skip) =>
           /\ scopes' = scopes
           /\ scopes' = {}
           /\ running' = running
           /\ elapsed' = elapsed
           /\ pc' # "racing"
           /\ result'.skip = result.skip + 1
           /\ result'.tests = Append(result.tests, SkipResult(cur'.i)) ]_vars
  /\ []((cur.i >= 1 /\ cur.test.skip) =>
          /\ pc # "racing"
          /\ scopes = {}
          /\ TestRun(cur.i) \notin running
          /\ Cardinality(EntriesOf(cur.i)) = 1
          /\ \A k \in EntriesOf(cur.i) : result.tests[k].status = "skip")

C14_Witness ==
  /\ cur.i = 2
  /\ cur.test.skip
  /\ cur.test.method.kind = "throw"
  /\ pc = "afterEach"
  /\ TestRun(1) \in running
  /\ result.skip = 1
  /\ result.fail = 1
  /\ scopes = {}

\* C15: a test whose shouldThrow is a substring, and whose method settled,
\* yields success when the method threw an error whose message contains the
\* substring, and otherwise fail with a diagnostic that names the substring
\* and the message of what was thrown
C15_SubstringExpectation ==
  (MethodWon /\ cur.test.shouldThrow.kind = "string") =>
    LET st     == cur.test.shouldThrow.text
        err    == cur.test.method.err
        occurs == cur.test.method.kind = "throw" /\ Includes(err.message, st)
    IN \E k \in EntriesOf(cur.i) :
         IF occurs
           THEN result.tests[k].status = "success"
           ELSE /\ result.tests[k].status = "fail"
                /\ result.tests[k].error # err
                /\ Includes(result.tests[k].error.message, st)
                /\ cur.test.method.kind = "throw" =>
                     Includes(result.tests[k].error.message, err.message)

\* the positions in the event stream of the events of test i
EventsOf(i) == { k \in 1..Len(events) : events[k].idx = i }
\* executeTest has returned a result other than skip for test i
Executed(i) == \E k \in EntriesOf(i) : result.tests[k].status # "skip"

\* C16: the event stream is in execution order: `suite before` is the first
\* event and the only one of its kind, `suite after` comes last and only once
\* executeSuite is over; the events of each test are contiguous, begin with
\* its `test before`, and end with its `test after` when it was executed, its
\* assertion events lying in between; tests come in the order of the suite;
\* the events of a synthetic suite-level failure are `test before`, assertion,
\* `test after`, one after the other
C16_EventsInExecutionOrder ==
  /\ pc # "init" => (events # <<>> /\ events[1] = Ev("suite", "before", "suite", 0))
  /\ pc = "done" => events[Len(events)] = Ev("suite", "after", "suite", 0)
  /\ \A k \in 1..Len(events) :
       /\ (events[k].type = "suite" /\ events[k].phase = "before") => k = 1
       /\ (events[k].type = "suite" /\ events[k].phase = "after") =>
            (k = Len(events) /\ pc = "done")
       /\ (events[k].idx = 0 /\ events[k].type = "test" /\ events[k].phase = "before") =>
            /\ k + 2 < Len(events)
            /\ events[k + 1] = Ev("assertion", "after", "(outer)", 0)
            /\ events[k + 2] = Ev("test", "after", events[k].name, 0)
       /\ (events[k].idx = 0 /\ events[k].type = "assertion") =>
            (k > 1 /\ events[k - 1].type = "test" /\ events[k - 1].phase = "before"
                   /\ events[k - 1].idx = 0)
       /\ \A j \in 1..k :
            (events[j].idx >= 1 /\ events[k].idx >= 1) => events[j].idx <= events[k].idx
  /\ \A i \in 1..suite.tests :
       LET ks    == EventsOf(i)
           first == CHOOSE k \in ks : \A j \in ks : k <= j
           last  == CHOOSE k \in ks : \A j \in ks : j <= k
       IN /\ Executed(i) => ks # {}
          /\ ks # {} =>
               /\ \A k \in first..last : k \in ks
               /\ events[first] = Ev("test", "before", "test", i)
               /\ \A k \in ks : (events[k].type = "test" /\ events[k].phase = "before")
                                  => k = first
               /\ \A k \in ks : (events[k].type = "test" /\ events[k].phase = "after")
                                  => k = last
               /\ \A k \in ks : (k # first /\ k # last) => events[k].type = "assertion"
               /\ Executed(i) => events[last] = Ev("test", "after", "test", i)

C16_Witness ==
  /\ pc = "done"
  /\ TestRun(1) \in running
  /\ events = << Ev("suite", "before", "suite", 0),
                 Ev("test", "before", "test", 1),
                 Ev("assertion", "after", "(uncaught)", 1),
                 Ev("test", "after", "test", 1),
                 Ev("test", "before", "test", 2),
                 Ev("assertion", "after", "check", 2),
                 Ev("test", "after", "test", 2),
                 Ev("test", "before", "afterEach", 0),
                 Ev("assertion", "after", "(outer)", 0),
                 Ev("test", "after", "afterEach", 0),
                 Ev("suite", "after", "suite", 0) >>

\* C17 (as claimed): at most one invocation is in progress at any time, and
\* while a capture scope is open no invocation other than the one of the test
\* it was opened for is in progress, also after a timeout
C17_OneInvocationAtATime ==
  /\ Cardinality(running) <= 1
  /\ scopes # {} => running \subseteq {TestRun(cur.i)}

\* the invocation r was abandoned by a timeout: its test has the timeout
\* failure for result, or it is the listener whose timeout ended the run
Abandoned(r) ==
  IF r.what = "test"
    THEN \E k \in EntriesOf(r.idx) :
           /\ result.tests[k].status = "fail"
           /\ result.tests[k].error.message = TimedOutMsg
    ELSE /\ pc = "done"
         /\ result.tests # <<>>
         /\ result.tests[Len(result.tests)].methodName = r.what
         /\ result.tests[Len(result.tests)].error.message = <<"suite:", r.what, "timed out">>

\* C17 (amended): the engine awaits one invocation at a time and keeps one
\* set of capture scopes open at a time: scopes are open only during the race
\* of the current test and are opened only when none is open; every
\* invocation in progress is the one of the test in the race or one that a
\* timeout abandoned, and these may go on next to later tests
C17_OneAwaitedInvocation ==
  /\ [][ (scopes' # scopes /\ scopes' # {}) => scopes = {} ]_vars
  /\ [](/\ scopes # {} => (pc = "racing" /\ cur.i = idx)
         /\ \A r \in running :
              \/ (pc = "racing" /\ r = TestRun(idx))
              \/ Abandoned(r))

C17_Witness ==
  /\ pc = "racing"
  /\ idx = 2
  /\ running = {TestRun(1), TestRun(2)}
  /\ scopes = {"timer", "console", "assert"}
  /\ Abandoned(TestRun(1))
  /\ ~Abandoned(TestRun(2))

\* the run ended because a listener of a lifecycle phase threw or timed out
HookFailed ==
  /\ pc = "done"
  /\ result.tests # <<>>
  /\ result.tests[Len(result.tests)].methodName \in Phases

\* the listeners of `phase` invoked around test i (i = 0 for beforeAll)
HooksOf(phase, i) == { k \in 1..Len(hooks) : hooks[k] = HookRun(phase, i) }

\* C18: every step in which a listener of a lifecycle phase throws or times out
\* appends one synthetic TestResult (status fail, methodName the phase, one
\* assertion `throws` / `(outer)`) and ends the run; in the run it ended the
\* failing listener is the last one invoked: the listeners after it in its
\* phase and the phases after it (afterEach, afterAll) are not run, and the
\* synthetic result is the only suite-level one
C18_HookFailureAborts ==
  /\ [][ (pc \in Phases /\ pc' = "done" /\ hooks' # hooks) =>
           LET bad == result'.tests[Len(result'.tests)] IN
           /\ Len(result'.tests) = Len(result.tests) + 1
           /\ SubSeq(result'.tests, 1, Len(result.tests)) = result.tests
           /\ bad.status = "fail"
           /\ bad.methodName = pc
           /\ bad.idx = 0
           /\ Len(bad.assertions) = 1
           /\ bad.assertions[1].operator = "throws"
           /\ bad.assertions[1].text = "(outer)"
           /\ hooks' = Append(hooks, HookRun(pc, idx))
           /\ li' = li ]_vars
  /\ [][ pc = "done" => (hooks' = hooks /\ result' = result) ]_vars
  /\ [](HookFailed =>
          LET phase == result.tests[Len(result.tests)].methodName
              last  == hooks[Len(hooks)]
          IN /\ Cardinality(SuiteErrors) = 1
             /\ hooks # <<>>
             /\ last.what = phase
             /\ Cardinality(HooksOf(phase, last.idx)) = li + 1
             /\ li + 1 <= suite[phase]
             /\ \A k \in 1..Len(hooks) :
                  /\ phase # "afterAll" => hooks[k].what # "afterAll"
                  /\ phase = "beforeAll" => hooks[k].what = "beforeAll"
                  /\ phase = "beforeEach" =>
                       ~(hooks[k].what = "afterEach" /\ hooks[k].idx = last.idx)
                  /\ hooks[k].idx <= last.idx)

\* an error other than BREAKOUT reaches the catch of executeSuite in this
\* step: it escapes executeTest, or it is raised in the catch of affixProcess
ErrorReachesCatch ==
  \/ pc = "racing" /\ pc' \notin {"racing", "afterEach"}
  \/ /\ pc \in Phases
     /\ hooks' # hooks
     /\ pc' # pc
     /\ ~(/\ pc' = "done"
          /\ result'.tests # <<>>
          /\ result'.tests[Len(result'.tests)].methodName = pc)

\* C19: executeSuite never rejects; every error other than BREAKOUT that
\* reaches its catch becomes one more suite-level fail TestResult, after
\* which `suite after` is emitted and the SuiteResult is returned
C19_SuiteNeverThrows ==
  /\ [](pc # "threw")
  /\ [][ ErrorReachesCatch =>
           LET bad == result'.tests[Len(result'.tests)] IN
           /\ pc' = "done"
           /\ Len(result'.tests) = Len(result.tests) + 1
           /\ SubSeq(result'.tests, 1, Len(result.tests)) = result.tests
           /\ bad.status = "fail"
           /\ bad.idx = 0
           /\ bad.methodName = "all"
           /\ Len(bad.assertions) = 1
           /\ bad.assertions[1].text = "(outer)"
           /\ events'[Len(events')] = Ev("suite", "after", "suite", 0) ]_vars

\* C20: no beforeEach and no afterEach listener is invoked around a test
\* that executeTest skipped
C20_SkippedTestHasNoHooks ==
  \A i \in 1..suite.tests :
    (\E k \in EntriesOf(i) : result.tests[k].status = "skip") =>
      (HooksOf("beforeEach", i) = {} /\ HooksOf("afterEach", i) = {})

\* C21: every step that ends executeTest for a test that was not skipped
\* (its method returned or threw, its expectation failed, it timed out, or
\* an error escaped checkError) closes both capture scopes and cancels the
\* timer; none of them is open outside the race of a test, so none is open
\* when the next listener or the next test starts
C21_ScopesClosedOnEveryPath ==
  /\ [][ (pc = "racing" /\ pc' # "racing") => (scopes # {} /\ scopes' = {}) ]_vars
  /\ [](pc # "racing" => scopes = {})
  /\ [](pc = "racing" => scopes = {"timer", "console", "assert"})

\* executeTest was left by an error that escaped checkError
C21_Witness ==
  /\ pc = "done"
  /\ cur.i = 2
  /\ cur.test.shouldThrow = Bool(TRUE)
  /\ cur.test.method.kind = "return"
  /\ result.tests[Len(result.tests)].methodName = "all"
  /\ TestRun(1) \in running
  /\ scopes = {}

(***************************************************************************)
(* Further properties of Executor.exec                                     *)
(***************************************************************************)
\* C22: every step in which exec resumes from the race does so for a child
\* that has just completed, whichever its place in the order of dispatch:
\* exactly that child's message is merged, exactly its entry leaves the
\* pending set, nothing is dispatched in the same step, and a slot is free
\* for the next file afterwards
C22_FirstToFinish ==
  [][ (epc = "race" /\ epc' = "loop") =>
        \E id \in DOMAIN pending :
          /\ pending[id] = "pending"
          /\ child[id].defined
          /\ DOMAIN pending' = DOMAIN pending \ {id}
          /\ \A j \in DOMAIN pending' : pending'[j] = pending[j]
          /\ results'.suites = results.suites \o child[id].suites.suites
          /\ results'.failed = results.failed + child[id].suites.failed
          /\ results'.passed = results.passed + child[id].suites.passed
          /\ results'.skipped = results.skipped + child[id].suites.skipped
          /\ results'.total = results.total + child[id].suites.total
          /\ position' = position
          /\ Cardinality(DOMAIN pending') < executors(cpus) ]_vars

\* file 1 finished before file 0, and file 2 was dispatched in its slot while
\* file 0 is still pending
C22_Witness ==
  /\ cpus = 3
  /\ nfiles = 4
  /\ DOMAIN pending = {0, 2}
  /\ pending[0] = "pending"
  /\ results.suites = <<1>>
  /\ position = 3

\* the places in the event stream of the events `e`
PlacesOf(e) == { k \in 1..Len(events) : events[k] = e }

\* C24: every TestResult of status fail whose error is not an AssertionError
\* has exactly one Assertion with operator `throws` and text `(uncaught)`, the
\* last of its assertions, whose line is the error's line or, when that is
\* line 1, the test's declared start line; it is delivered once, after the
\* assertions the test recorded and right before `test after`.  A TestResult
\* whose error is an AssertionError, or of status success or skip, has none
\* and none is delivered for it.
C24_UncaughtAssertion ==
  \A k \in 1..Len(result.tests) :
    LET r == result.tests[k]
        n == Len(r.assertions)
        U == { j \in 1..n : r.assertions[j].text = "(uncaught)" }
        D == PlacesOf(Ev("assertion", "after", "(uncaught)", r.idx))
    IN  r.idx # 0 =>
          IF r.status = "fail" /\ r.error.kind # "AssertionError"
            THEN /\ U = {n}
                 /\ r.assertions[n].operator = "throws"
                 /\ r.assertions[n].line =
                      (IF r.error.line = 1 THEN LinesStart(r.idx) ELSE r.error.line)
                 /\ Cardinality(D) = 1
                 /\ \A d \in D :
                      /\ d < Len(events)
                      /\ events[d + 1] = Ev("test", "after", "test", r.idx)
                      /\ \A c \in PlacesOf(Ev("assertion", "after", "check", r.idx)) : c < d
            ELSE U = {} /\ D = {}

\* a test that timed out after it had checked an assertion (the error of a
\* timeout resolves to line 1, so the line is the test's start line), after
\* a test that failed with an AssertionError
C24_Witness ==
  /\ Len(result.tests) = 2
  /\ result.tests[1].status = "fail"
  /\ result.tests[1].error.kind = "AssertionError"
  /\ result.tests[2].status = "fail"
  /\ result.tests[2].error.message = TimedOutMsg
  /\ result.tests[2].assertions[1].line = LinesStart(2)
  /\ PlacesOf(Ev("assertion", "after", "check", 2)) # {}

\* C25: the SuiteResult carried by `suite after` has total = success + fail
\* at the moment the event is delivered to the consumer
C25_TotalAtDelivery ==
  PlacesOf(Ev("suite", "after", "suite", 0)) # {} =>
    /\ delivered.total = delivered.success + delivered.fail
    /\ delivered = result

\* only the counters and the list of results are complete at delivery: what
\* the consumer is handed differs from what executeSuite returns in `total`
\* alone, which is still 0
C25_CountsAtDelivery ==
  PlacesOf(Ev("suite", "after", "suite", 0)) # {} =>
    /\ delivered.total = 0
    /\ result = [delivered EXCEPT !.total = delivered.success + delivered.fail]

EntriesWith(status) ==
  Cardinality({ k \in 1..Len(result.tests) : result.tests[k].status = status })

\* C27: in the SuiteResult executeSuite returns, each of the counters fail,
\* success and skip equals the number of entries of result.tests with that
\* status, the synthetic suite-level failures included
C27_CountersMatchEntries ==
  pc = "done" =>
    /\ result.fail = EntriesWith("fail")
    /\ result.success = EntriesWith("success")
    /\ result.skip = EntriesWith("skip")

\* the counters match the entries that belong to tests: the synthetic
\* suite-level failures are the only entries that are not counted
C27_CountersMatchTestEntries ==
  /\ result.fail = EntriesWith("fail") - Cardinality(SuiteErrors)
  /\ result.success = EntriesWith("success")
  /\ result.skip = EntriesWith("skip")

IsTestBefore(e) == e.type = "test" /\ e.phase = "before"
IsTestAfter(e) == e.type = "test" /\ e.phase = "after"
IsSuiteAfter(e) == e.type = "suite" /\ e.phase = "after"

\* the `test before` at place k is answered: a `test after` of the same test
\* follows it with no other `test before` and no `suite after` in between
Answered(k) ==
  \E a \in (k + 1)..Len(events) :
    /\ IsTestAfter(events[a])
    /\ events[a].name = events[k].name
    /\ events[a].idx = events[k].idx
    /\ \A m \in (k + 1)..(a - 1) : ~IsTestBefore(events[m]) /\ ~IsSuiteAfter(events[m])

\* C28: every `test before` event is followed by the `test after` event of
\* the same test before the next `test before` and before `suite after`
C28_BeforeAfterPaired ==
  \A k \in 1..Len(events) :
    (/\ IsTestBefore(events[k])
     /\ \E m \in (k + 1)..Len(events) : IsTestBefore(events[m]) \/ IsSuiteAfter(events[m]))
      => Answered(k)

\* the `test before` of a test that is not skipped and whose outcome is
\* returned by executeTest is answered, and so is the one of a synthetic
\* suite-level failure; the one of a skipped test never is
C28_PairedUnlessSkippedOrEscaped ==
  \A k \in 1..Len(events) :
    (/\ IsTestBefore(events[k])
     /\ \E m \in (k + 1)..Len(events) : IsTestBefore(events[m]) \/ IsSuiteAfter(events[m]))
      => IF events[k].idx = 0 THEN Answered(k)
         ELSE IF \E j \in EntriesOf(events[k].idx) : result.tests[j].status = "skip"
           THEN ~Answered(k)
         ELSE (Answered(k) <=> EntriesOf(events[k].idx) # {})

\* spawnFile(id) resolves in this step: its child exited with a clean status
Resolves(id) ==
  /\ id \in DOMAIN pending
  /\ pending[id] = "pending"
  /\ id \in DOMAIN pending' => pending'[id] = "resolved"

\* C29: whenever spawnFile resolves, the results it returns are the
\* SuitesResult its child sent, never undefined, whether or not the message
\* was handled before the child's exit; undefined is never merged
C29_ResolvedResultsDefined ==
  [][ \A id \in 0..(MaxFiles - 1) :
        Resolves(id) => (child[id].defined /\ thrown' # "TypeError") ]_vars

\* the merge throws only on the results of a child that exited cleanly
\* before any message of it was handled
C29_UndefinedOnlyWithoutMessage ==
  [][ (thrown' = "TypeError" /\ thrown # "TypeError") =>
        \E id \in DOMAIN pending' :
          pending'[id] = "resolved" /\ ~child[id].defined ]_vars

\* C30: when a multi-file run returns, Executor.pending is empty: every
\* entry that was merged has been removed
C30_PendingEmptyOnReturn ==
  epc = "returned" => DOMAIN pending = {}

\* only the entries merged in the loop are removed: the ones merged after
\* Promise.all, as many as there are executors (or files, if fewer), are
\* still in Executor.pending, resolved, when exec returns
C30_DrainedEntriesStay ==
  epc = "returned" =>
    /\ \A id \in DOMAIN pending : pending[id] = "resolved"
    /\ Cardinality(DOMAIN pending) =
         (IF nfiles < executors(cpus) THEN nfiles ELSE executors(cpus))

(***************************************************************************)
(* Properties of executeSuiteTest                                          *)
(***************************************************************************)
\* n invocations of the listeners of `phase` around test i
Invocations(phase, i, n) == [k \in 1..n |-> HookRun(phase, i)]

\* the listeners of a complete lifecycle around the selected test, in order
ExpectedHooks ==
  Invocations("beforeAll", 0, suite.beforeAll)
    \o Invocations("beforeEach", suite.only, suite.beforeEach)
    \o Invocations("afterEach", suite.only, suite.afterEach)
    \o Invocations("afterAll", suite.only, suite.afterAll)

IsPrefix(s, t) == Len(s) <= Len(t) /\ \A k \in 1..Len(s) : s[k] = t[k]

\* executeSuiteTest is over
Over == pc \in {"done", "threw"}

\* the selected test has been handed to executeTest
Selected == \E k \in 1..Len(events) : events[k] = Ev("test", "before", "test", suite.only)

\* the lifecycle order of executeSuiteTest: listeners are invoked in the order
\* beforeAll, beforeEach, afterEach, afterAll; the selected test is handed to
\* executeTest between the last beforeEach and the first afterEach listener,
\* once, and no other test is
LifecycleOrder ==
  /\ IsPrefix(hooks, ExpectedHooks)
  /\ Cardinality({ k \in 1..Len(events) : events[k].type = "test" /\ events[k].phase = "before"
                                           /\ events[k].idx # 0 }) <= 1
  /\ \A k \in 1..Len(events) : events[k].idx \in {0, suite.only}
  /\ \A r \in running : r.what = "test" => r.idx = suite.only
  /\ cur.i \in {0, suite.only}
  /\ pc \in {"test", "racing"} => Len(hooks) = suite.beforeAll + suite.beforeEach
  /\ Selected => Len(hooks) >= suite.beforeAll + suite.beforeEach
  /\ Len(hooks) > suite.beforeAll + suite.beforeEach => Selected

\* a step in which a listener fails: it is invoked and the run ends, or (the
\* last listener of afterAll apart) it is invoked and the phase is left
ListenerFails ==
  /\ pc \in Phases
  /\ hooks' # hooks
  /\ pc' \in {"done", "threw"}

\* C23: executeSuiteTest runs the lifecycle around exactly one selected test:
\* the listeners are invoked in the order beforeAll, beforeEach, afterEach,
\* afterAll with the selected test, once, in between and no other test; the
\* run ends before the whole lifecycle has run only in a step in which a
\* listener fails; and after a beforeAll or beforeEach listener failed the
\* selected test is not run
C23_LifecycleAroundOneTest ==
  /\ [](pc # "idle" => LifecycleOrder)
  /\ [][ (~Over /\ Over' /\ (hooks' # ExpectedHooks \/ ~Selected')) => ListenerFails ]_vars
  /\ [][ (ListenerFails /\ pc \in {"beforeAll", "beforeEach"}) => ~Selected' ]_vars
  /\ [](Over /\ ~Selected => TestRun(suite.only) \notin running)

\* a complete lifecycle with two listeners per phase around the second test of
\* a suite of two
C23_Witness ==
  /\ pc = "done"
  /\ suite.tests = 2 /\ suite.only = 2
  /\ suite.beforeAll = 2 /\ suite.beforeEach = 2
  /\ hooks = ExpectedHooks
  /\ Selected
  /\ result.tests = <<>>

====
